---- MODULE Spec2Model ----
(***************************************************************************)
(* Model of src/main.py: the /analyze-resumes request handler and the      *)
(* analysis routine analyze_resume_match with its reply normalisation.     *)
(*                                                                         *)
(* Texts (job description, resume) are represented by their length, the    *)
(* only thing the code reads of them.  A model reply is a sequence of      *)
(* tokens (code fence, the word json, whitespace, junk text, a JSON        *)
(* document), so that fence stripping and parsing are computed.  A JSON    *)
(* value is a record [t, n, s, l]: its type, number, string and list.      *)
(* Floats carry their value in tenths.  A Python dict is a function from   *)
(* its keys to JSON values; a missing key is a key outside its DOMAIN.     *)
(* An insert that raises or returns no data stores no row.  The prompt    *)
(* and its truncation of long texts are not modelled: nothing the handler  *)
(* does depends on them.                                                   *)
(***************************************************************************)
EXTENDS Integers, Sequences, FiniteSets, TLC

\* ------------------------------------------------------------------ bounds
MaxFiles == 2

\* ------------------------------------------------------- program constants
MinTextLength == 50
DefaultScore == 50
MaxScore == 100

ALLOWED_EXTENSIONS == {"pdf", "txt"}

\* --------------------------------------------------------------- JSON values
JInt(k)   == [t |-> "int",   n |-> k, s |-> "", l |-> <<>>]
JFloat(k) == [t |-> "float", n |-> k, s |-> "", l |-> <<>>]
JBool(k)  == [t |-> "bool",  n |-> k, s |-> "", l |-> <<>>]
JStr(x)   == [t |-> "str",   n |-> 0, s |-> x,  l |-> <<>>]
JList(xs) == [t |-> "list",  n |-> 0, s |-> "", l |-> xs]
JNull     == [t |-> "null",  n |-> 0, s |-> "", l |-> <<>>]
JNaN      == [t |-> "nan",   n |-> 0, s |-> "", l |-> <<>>]
JInf      == [t |-> "inf",   n |-> 1, s |-> "", l |-> <<>>]
JNegInf   == [t |-> "inf",   n |-> -1, s |-> "", l |-> <<>>]

\* isinstance(v, (int, float)): bool is a subclass of int, NaN and Infinity
\* are floats.
IsNumber(v) == v.t \in {"int", "float", "bool", "nan", "inf"}

\* isinstance(v, list) and isinstance(v, str)
IsList(v) == v.t = "list"
IsStr(v) == v.t = "str"

\* The value of a finite number, in tenths.
Tenths(v) == IF v.t = "float" THEN v.n ELSE 10 * v.n

\* Mutant of InScoreRange: the upper limit without the lower one.
InScoreRangeUpperOnly(v) ==
    CASE v.t = "nan" -> FALSE
      [] v.t = "inf" -> FALSE
      [] OTHER -> Tenths(v) <= 10 * MaxScore

\* 0 <= v <= 100 for a number v: every comparison with NaN is false.
InScoreRange(v) ==
    CASE v.t = "nan" -> FALSE
      [] v.t = "inf" -> FALSE
      [] OTHER -> 0 <= Tenths(v) /\ Tenths(v) <= 10 * MaxScore

\* v < 0 for a number v.
IsNegative(v) ==
    CASE v.t = "nan" -> FALSE
      [] v.t = "inf" -> v.n < 0
      [] OTHER -> Tenths(v) < 0

\* int(s) of a string: the integer it denotes when it is an integer literal
\* (sign, digits, blanks around it), on the strings of the model.
IntLiteral(x) ==
    CASE x = "85" -> [ok |-> TRUE, n |-> 85]
      [] x = "5" -> [ok |-> TRUE, n |-> 5]
      [] x = " 7 " -> [ok |-> TRUE, n |-> 7]
      [] x = "-3" -> [ok |-> TRUE, n |-> -3]
      [] OTHER -> [ok |-> FALSE, n |-> 0]

\* int(v): a finite number is truncated toward zero, a string that is an
\* integer literal is read.
IntOf(v) ==
    IF v.t = "str" THEN IntLiteral(v.s).n
    ELSE LET x == Tenths(v) IN IF x >= 0 THEN x \div 10 ELSE -((-x) \div 10)

\* int(v) raises for NaN (ValueError) and Infinity (OverflowError).
IntRaises(v) == v.t \in {"nan", "inf"}

\* The dict d with key k set to v.
DictSet(d, k, v) == [x \in (DOMAIN d) \cup {k} |-> IF x = k THEN v ELSE d[x]]

\* dict.get(k, default)
DictGet(d, k, default) == IF k \in DOMAIN d THEN d[k] ELSE default

\* ------------------------------------------------------------ model replies
\* A parsed JSON document: an object (obj is its dict), an array or a string
\* (items are the strings "x in doc" finds in it), or a scalar.
EmptyDict == [x \in {} |-> JNull]
ObjectDoc(d) == [kind |-> "object", obj |-> d, items |-> {}]
ArrayDoc(xs) == [kind |-> "array", obj |-> EmptyDict, items |-> xs]
StringDoc(xs) == [kind |-> "string", obj |-> EmptyDict, items |-> xs]
ScalarDoc == [kind |-> "scalar", obj |-> EmptyDict, items |-> {}]
NoDoc == [kind |-> "none", obj |-> EmptyDict, items |-> {}]

\* Tokens of a reply text.
Fence == [k |-> "fence", doc |-> NoDoc]
JsonWord == [k |-> "json", doc |-> NoDoc]
Ws == [k |-> "ws", doc |-> NoDoc]
Junk == [k |-> "junk", doc |-> NoDoc]
Val(doc) == [k |-> "val", doc |-> doc]

\* What model.generate_content(prompt) does: it raises, or returns a text.
ApiRaises == [kind |-> "raise", toks |-> <<>>]
ReplyText(toks) == [kind |-> "text", toks |-> toks]

\* ------------------------------------------------- analyze_resume_match
RECURSIVE LStrip(_)
LStrip(toks) ==
    IF toks # <<>> /\ Head(toks).k = "ws" THEN LStrip(Tail(toks)) ELSE toks

RECURSIVE RStrip(_)
RStrip(toks) ==
    IF toks # <<>> /\ toks[Len(toks)].k = "ws"
    THEN RStrip(SubSeq(toks, 1, Len(toks) - 1))
    ELSE toks

\* str.strip()
Strip(toks) == RStrip(LStrip(toks))

\* response_text.startswith('```json')
StartsWithFenceJson(toks) ==
    Len(toks) >= 2 /\ toks[1].k = "fence" /\ toks[2].k = "json"

\* response_text.startswith('```') and response_text.endswith('```')
StartsWithFence(toks) == Len(toks) >= 1 /\ toks[1].k = "fence"
EndsWithFence(toks) == Len(toks) >= 1 /\ toks[Len(toks)].k = "fence"

\* The clean-up of the reply: strip, the three fence tests in the order of
\* the code, strip.
StripFences(toks) ==
    LET t0 == Strip(toks)
        t1 == IF StartsWithFenceJson(t0) THEN SubSeq(t0, 3, Len(t0)) ELSE t0
        t2 == IF EndsWithFence(t1) THEN SubSeq(t1, 1, Len(t1) - 1) ELSE t1
        t3 == IF StartsWithFence(t2) THEN Tail(t2) ELSE t2
    IN  Strip(t3)

\* json.loads succeeds on exactly one JSON document and nothing else.
JsonParses(toks) == Len(toks) = 1 /\ toks[1].k = "val"

\* The record of the three early returns and of the outer except.
ErrorRecord(msg, candidate_name) ==
    [error |-> JStr(msg),
     candidate_name |-> JStr(candidate_name),
     match_score |-> JInt(0)]

\* Mutant of FallbackRecord: the fallback without its error key.
FallbackRecordNoError(candidate_name) ==
    [candidate_name |-> JStr(candidate_name),
     match_score |-> JInt(DefaultScore),
     experience_years |-> JInt(0),
     matching_skills |-> JList(<<>>),
     missing_skills |-> JList(<<>>),
     strengths |-> JList(<<"Analysis completed">>),
     weaknesses |-> JList(<<"Unable to parse detailed analysis">>),
     recommendation |-> JStr("review"),
     summary |-> JStr("Analysis completed but detailed parsing failed")]

\* The record returned on json.JSONDecodeError.
FallbackRecord(candidate_name) ==
    [candidate_name |-> JStr(candidate_name),
     match_score |-> JInt(DefaultScore),
     experience_years |-> JInt(0),
     matching_skills |-> JList(<<>>),
     missing_skills |-> JList(<<>>),
     strengths |-> JList(<<"Analysis completed">>),
     weaknesses |-> JList(<<"Unable to parse detailed analysis">>),
     recommendation |-> JStr("review"),
     summary |-> JStr("Analysis completed but detailed parsing failed"),
     error |-> JStr("JSON parsing failed, using fallback analysis")]

required_fields == <<"match_score", "experience_years", "recommendation">>
array_fields == {"matching_skills", "missing_skills", "strengths", "weaknesses"}
Recommendations == {"qualified", "review", "not_qualified"}

\* "field in result" for a parsed document that supports it.
FieldIn(doc, field) ==
    IF doc.kind = "object" THEN field \in DOMAIN doc.obj ELSE field \in doc.items

\* The first required field the document lacks, "" when it has them all.
FirstMissing(doc) ==
    IF \A j \in 1..Len(required_fields) : FieldIn(doc, required_fields[j])
    THEN ""
    ELSE LET j == CHOOSE m \in 1..Len(required_fields) :
                      /\ ~FieldIn(doc, required_fields[m])
                      /\ \A q \in 1..(m - 1) : FieldIn(doc, required_fields[q])
         IN  required_fields[j]

MissingFieldMessage(field) ==
    CASE field = "match_score" -> "AI response missing required field: match_score"
      [] field = "experience_years" -> "AI response missing required field: experience_years"
      [] OTHER -> "AI response missing required field: recommendation"

\* Mutant of ScoreValid: the type test without the range test.
ScoreValidTypeOnly(v) == IsNumber(v)

\* The three tests of "Validate data types and ranges": TRUE keeps the value.
ScoreValid(v) == IsNumber(v) /\ InScoreRange(v)
ExperienceValid(v) == IsNumber(v) /\ ~IsNegative(v)
RecommendationValid(v) == IsStr(v) /\ v.s \in Recommendations

\* The field-by-field coercion of a dict that has the required fields.
Coerce(result) ==
    [key \in (DOMAIN result) \cup array_fields \cup {"summary"} |->
        CASE key = "match_score" ->
               IF ScoreValid(result[key]) THEN result[key] ELSE JInt(DefaultScore)
          [] key = "experience_years" ->
               IF ExperienceValid(result[key]) THEN result[key] ELSE JInt(0)
          [] key = "recommendation" ->
               IF RecommendationValid(result[key]) THEN result[key] ELSE JStr("review")
          [] key \in array_fields ->
               IF key \in DOMAIN result /\ IsList(result[key])
               THEN result[key] ELSE JList(<<>>)
          [] key = "summary" ->
               IF key \in DOMAIN result /\ IsStr(result[key])
               THEN result[key] ELSE JStr("Analysis completed")
          [] OTHER -> result[key]]

\* What the routine returns for a parsed document.  A scalar raises TypeError
\* at "field not in result", an array or a string that names the three fields
\* raises it at result['match_score']; the outer except turns both into the
\* "Analysis failed" record.
FromDocument(doc, candidate_name) ==
    CASE doc.kind = "scalar" -> ErrorRecord("Analysis failed", candidate_name)
      [] FirstMissing(doc) # "" ->
           ErrorRecord(MissingFieldMessage(FirstMissing(doc)), candidate_name)
      [] doc.kind # "object" -> ErrorRecord("Analysis failed", candidate_name)
      [] OTHER -> Coerce(doc.obj)

\* Everything after the model call: the API error, the clean-up, the parse
\* with its fallback, the validation.
Normalize(reply, candidate_name) ==
    IF reply.kind = "raise"
    THEN ErrorRecord("AI service error", candidate_name)
    ELSE LET text == StripFences(reply.toks) IN
         IF JsonParses(text)
         THEN FromDocument(text[1].doc, candidate_name)
         ELSE FallbackRecord(candidate_name)

\* Mutant of TooShort: the limit off by one.
TooShortOffByOne(length) == length < MinTextLength - 1

\* Mutant of LengthGuard: the job description is not tested.
LengthGuardResumeOnly(job_len, resume_len) ==
    IF resume_len < MinTextLength THEN "Resume text too short to analyze" ELSE ""

\* The two length guards in front of the model call: the error message, ""
\* when neither fires.
TooShort(length) == length < MinTextLength

LengthGuard(job_len, resume_len) ==
    CASE TooShort(resume_len) -> "Resume text too short to analyze"
      [] TooShort(job_len) -> "Job description too short to analyze"
      [] OTHER -> ""

\* ---------------------------------------------------------- uploaded files
\* A file name is the sequence of its dot-separated parts (<<"cv", "pdf">>
\* is cv.pdf, <<"cv">> has no dot); <<>> is a part without a file name.
\* The content of a file is whether it decodes (UTF-8 for a text file, a
\* readable PDF), the length of its text, and whether reading it raises
\* some other exception (broken).
ResumeDbCap == 50000

\* str.lower() on the extensions of the model.
Lower(x) ==
    CASE x = "PDF" -> "pdf"
      [] x = "TXT" -> "txt"
      [] OTHER -> x

\* Mutant of allowed_file: any extension passes.
allowed_file_any_extension(filename) == Len(filename) >= 2

\* '.' in filename and filename.rsplit('.', 1)[1].lower() in ALLOWED_EXTENSIONS
allowed_file(filename) ==
    Len(filename) >= 2 /\ Lower(filename[Len(filename)]) \in ALLOWED_EXTENSIONS

\* file and file.filename and allowed_file(file.filename)
Accepted(file) == file.filename # <<>> /\ allowed_file(file.filename)

\* str.title() after the two replace calls, on the stems of the model.
Title(stem) ==
    CASE stem = "jane_doe" -> "Jane Doe"
      [] stem = "bob-ray" -> "Bob Ray"
      [] OTHER -> stem

\* os.path.splitext(filename)[0].replace('_', ' ').replace('-', ' ').title()
\* for a name with exactly one dot.
CandidateName(filename) == Title(filename[1])

\* extract_text_from_pdf: (text, error); text is a length, -1 for None, and
\* error is "" for None.  The reader raises PdfReadError on a content that
\* does not decode and another exception on a broken one.
extract_text_from_pdf(content) ==
    CASE content.broken -> [text |-> -1, error |-> "Error extracting text from PDF"]
      [] ~content.decodable -> [text |-> -1, error |-> "Invalid PDF file"]
      [] content.len = 0 ->
           [text |-> -1, error |-> "No text could be extracted from the PDF"]
      [] OTHER -> [text |-> content.len, error |-> ""]

\* extract_text_from_file: dispatch on the lower-cased suffix.  read() and
\* decode raise UnicodeDecodeError on a content that does not decode and
\* another exception (the outer except) on a broken one.
extract_text_from_file(file) ==
    LET ext == IF Len(file.filename) >= 2
               THEN Lower(file.filename[Len(file.filename)]) ELSE ""
    IN  CASE ext = "pdf" -> extract_text_from_pdf(file.content)
          [] ext = "txt" ->
               CASE file.content.broken ->
                      [text |-> -1, error |-> "Error extracting text from file"]
                 [] ~file.content.decodable ->
                      [text |-> -1, error |-> "Text file encoding error"]
                 [] OTHER -> [text |-> file.content.len, error |-> ""]
          [] OTHER -> [text |-> -1, error |-> "Unsupported file format"]

\* The entry appended for a file that failed before the analysis.
ErrorEntry(candidate_name, error) ==
    [candidate_name |-> JStr(candidate_name),
     error |-> JStr(error),
     match_score |-> JInt(0)]

\* ------------------------------------------------------------ final sort
\* x.get('match_score', 0) as a number in tenths.
\* An item of results is the entry with the index of its file beside it (the
\* index is history the code does not keep; the sort never reads it).
SortKey(item) == Tenths(DictGet(item.entry, "match_score", JInt(0)))

\* Mutant of InsertSorted: an item goes in front of the items of equal key,
\* as in an ascending sort that is reversed afterwards.
RECURSIVE InsertSortedTiesFirst(_, _)
InsertSortedTiesFirst(sorted, item) ==
    IF sorted = <<>> THEN <<item>>
    ELSE IF SortKey(Head(sorted)) > SortKey(item)
         THEN <<Head(sorted)>> \o InsertSortedTiesFirst(Tail(sorted), item)
         ELSE <<item>> \o sorted

\* results.sort(key=..., reverse=True): descending by key, and stable (equal
\* keys keep their order).  Insertion from the left, each item placed after
\* every item whose key is not smaller.
RECURSIVE InsertSorted(_, _)
InsertSorted(sorted, item) ==
    IF sorted = <<>> THEN <<item>>
    ELSE IF SortKey(Head(sorted)) >= SortKey(item)
         THEN <<Head(sorted)>> \o InsertSorted(Tail(sorted), item)
         ELSE <<item>> \o sorted

RECURSIVE SortFrom(_, _)
SortFrom(sorted, rest) ==
    IF rest = <<>> THEN sorted
    ELSE SortFrom(InsertSorted(sorted, Head(rest)), Tail(rest))

SortByScore(items) == SortFrom(<<>>, items)

\* -------------------------------------------------------------------- state
VARIABLES
    job_title,         \* request.form.get('jobTitle'); "" when missing
    job_description,   \* length of the jobDescription field; 0 when missing
    files,             \* request.files.getlist('resumes')
    pc,                \* where the handler stands; "none": no request
    i,                 \* index of the file of the current iteration
    job_id,            \* id of the job row; 0 before it exists
    candidate_id,      \* id of the candidate row of the current file
    resume_text,       \* length of the text of the current file
    jobs,              \* rows of table jobs
    candidates,        \* rows of table candidates (file: the index of the
                       \* upload the row was made for, kept as history)
    analysis_results,  \* rows of table analysis_results
    results,           \* the handler's list of entries
    response,          \* the HTTP response; status 0 before it is sent
    log,               \* logger.error of the persistence failures
    aPc,               \* where analyze_resume_match stands
    aArgs,             \* its arguments
    aResult,           \* the record it returned
    aReply,            \* what the model call returned or raised
    callLog,           \* the model calls issued, by file index
    inFlight           \* model calls issued and not yet returned

vars == <<job_title, job_description, files, pc, i, job_id, candidate_id,
          resume_text, jobs, candidates, analysis_results, results, response,
          log, aPc, aArgs, aResult, aReply, callLog, inFlight>>

requestVars == <<job_title, job_description, files>>
dbVars == <<jobs, candidates, analysis_results>>
analysisVars == <<aPc, aArgs, aResult, aReply, callLog, inFlight>>

\* ------------------------------------------------------------------- inputs
Pdf(decodable, len) ==
    [filename |-> <<"jane_doe", "pdf">>,
     content |-> [decodable |-> decodable, len |-> len, broken |-> FALSE]]
Txt(decodable, len) ==
    [filename |-> <<"bob-ray", "TXT">>,
     content |-> [decodable |-> decodable, len |-> len, broken |-> FALSE]]
Other(filename) ==
    [filename |-> filename,
     content |-> [decodable |-> TRUE, len |-> MinTextLength, broken |-> FALSE]]
\* A file whose reading raises an exception that is no decoding error.
Broken(file) == [file EXCEPT !.content.broken = TRUE]

\* The uploads of the model: accepted files that extract (long enough, too
\* short, empty), accepted files that do not, and files the loop skips.
FileUniverse ==
    {Pdf(TRUE, MinTextLength), Pdf(TRUE, 0), Pdf(FALSE, 0),
     Txt(TRUE, MinTextLength), Txt(TRUE, MinTextLength - 1), Txt(FALSE, 0),
     Broken(Pdf(TRUE, MinTextLength)), Broken(Txt(TRUE, MinTextLength)),
     Other(<<>>), Other(<<"virus", "exe">>), Other(<<"resume">>)}

RECURSIVE SeqsUpTo(_, _)
SeqsUpTo(S, n) ==
    IF n = 0 THEN {<<>>}
    ELSE LET shorter == SeqsUpTo(S, n - 1)
         IN  shorter \cup {Append(q, x) : q \in {r \in shorter : Len(r) = n - 1}, x \in S}

\* The form fields of the model: missing title, missing description, a
\* description below and at the length guard.
FormUniverse ==
    {[title |-> "", description |-> MinTextLength],
     [title |-> "Engineer", description |-> 0],
     [title |-> "Engineer", description |-> MinTextLength - 1],
     [title |-> "Engineer", description |-> MinTextLength]}

\* A JSON object of the model's replies.
Analysis(name, score, years, recommendation) ==
    [candidate_name |-> name,
     match_score |-> score,
     experience_years |-> years,
     recommendation |-> recommendation,
     matching_skills |-> JList(<<"Python">>),
     missing_skills |-> JList(<<>>),
     strengths |-> JList(<<"Strong technical background">>),
     weaknesses |-> JList(<<>>),
     summary |-> JStr("Good technical candidate")]

Without(d, keys) == [x \in (DOMAIN d) \ keys |-> d[x]]

\* The replies the model gives inside a request.
HandlerReplies(name) ==
    {ApiRaises,
     ReplyText(<<Junk>>),
     ReplyText(<<Fence, JsonWord, Ws,
                 Val(ObjectDoc(Analysis(JStr(name), JInt(90), JInt(5), JStr("qualified")))),
                 Ws, Fence>>),
     ReplyText(<<Val(ObjectDoc(Analysis(JStr(name), JInt(40), JFloat(25), JStr("not_qualified"))))>>),
     ReplyText(<<Val(ObjectDoc(Analysis(JStr(name), JInt(0), JInt(0), JStr("not_qualified"))))>>),
     ReplyText(<<Val(ObjectDoc(Analysis(JStr("Someone Else"), JInt(150), JInt(-1), JStr("hire"))))>>),
     ReplyText(<<Val(ObjectDoc(Analysis(JNull, JStr("high"), JInf, JNull)))>>),
     ReplyText(<<Val(ObjectDoc(Analysis(JStr(name), JFloat(995), JInt(2), JStr("review"))))>>),
     ReplyText(<<Val(ObjectDoc(Without(Analysis(JStr(name), JInt(90), JInt(5), JStr("qualified")),
                                       {"recommendation", "summary"})))>>),
     ReplyText(<<Val(ObjectDoc(DictSet(Analysis(JStr(name), JInt(90), JInt(5), JStr("qualified")),
                                       "error", JStr("none"))))>>),
     ReplyText(<<Val(ArrayDoc({}))>>)}

\* ---------------------------------------------------------------- responses
NoResponse ==
    [status |-> 0, error |-> "", job_id |-> 0, job_title |-> "",
     total_candidates |-> 0, results |-> <<>>]

ErrorResponse(status, error) ==
    [status |-> status, error |-> error, job_id |-> 0, job_title |-> "",
     total_candidates |-> 0, results |-> <<>>]

NoArgs == [job_description |-> 0, resume_text |-> 0, candidate_name |-> ""]
NoResult == EmptyDict
NoReply == [kind |-> "none", toks |-> <<>>]

\* What an insert(...).execute() does: the row is stored and returned, the
\* call returns no data, or it raises.
InsertOutcomes == {"ok", "empty", "raise"}

\* --------------------------------------------------------------------- Init
\* A request has arrived: the form and the uploads are its inputs.
Init ==
    /\ \E form \in FormUniverse :
          /\ job_title = form.title
          /\ job_description = form.description
    /\ files \in SeqsUpTo(FileUniverse, MaxFiles)
    /\ pc = "validate"
    /\ i = 0
    /\ job_id = 0
    /\ candidate_id = 0
    /\ resume_text = 0
    /\ jobs = <<>>
    /\ candidates = <<>>
    /\ analysis_results = <<>>
    /\ results = <<>>
    /\ response = NoResponse
    /\ log = <<>>
    /\ aPc = "idle"
    /\ aArgs = NoArgs
    /\ aResult = NoResult
    /\ aReply = NoReply
    /\ callLog = <<>>
    /\ inFlight = 0

\* ------------------------------------------------------------------ handler
\* if not job_title or not job_description: 400
ValidateInputs ==
    /\ pc = "validate"
    /\ IF job_title = "" \/ job_description = 0
       THEN /\ response' = ErrorResponse(400, "Missing job title or description")
            /\ pc' = "done"
       ELSE /\ pc' = "create_job"
            /\ UNCHANGED response
    /\ UNCHANGED <<requestVars, i, job_id, candidate_id, resume_text, dbVars,
                   results, log, analysisVars>>

\* supabase.table('jobs').insert(job_data).execute() and its two failures.
CreateJobRecord ==
    /\ pc = "create_job"
    /\ \E outcome \in InsertOutcomes :
          CASE outcome = "ok" ->
                 /\ jobs' = Append(jobs, [id |-> Len(jobs) + 1,
                                          title |-> job_title,
                                          description |-> job_description])
                 /\ job_id' = Len(jobs) + 1
                 /\ pc' = "check_files"
                 /\ UNCHANGED <<response, log>>
            [] outcome = "empty" ->
                 /\ response' = ErrorResponse(500, "Database error: Failed to create job record")
                 /\ log' = Append(log, "Failed to create job record in database")
                 /\ pc' = "done"
                 /\ UNCHANGED <<jobs, job_id>>
            [] OTHER ->
                 /\ response' = ErrorResponse(500, "Database connection failed")
                 /\ log' = Append(log, "Database error")
                 /\ pc' = "done"
                 /\ UNCHANGED <<jobs, job_id>>
    /\ UNCHANGED <<requestVars, i, candidate_id, resume_text, candidates,
                   analysis_results, results, analysisVars>>

\* files = request.files.getlist('resumes'); if not files: 400
CheckFiles ==
    /\ pc = "check_files"
    /\ IF files = <<>>
       THEN /\ response' = ErrorResponse(400, "No resume files uploaded")
            /\ pc' = "done"
            /\ UNCHANGED <<i, results>>
       ELSE /\ results' = <<>>
            /\ i' = 1
            /\ pc' = "loop"
            /\ UNCHANGED response
    /\ UNCHANGED <<requestVars, job_id, candidate_id, resume_text, dbVars, log,
                   analysisVars>>

\* The else branch of the loop body: the file is skipped.
SkipFile ==
    /\ pc = "loop"
    /\ i <= Len(files)
    /\ ~Accepted(files[i])
    /\ i' = i + 1
    /\ UNCHANGED <<requestVars, pc, job_id, candidate_id, resume_text, dbVars,
                   results, response, log, analysisVars>>

\* resume_text, error = extract_text_from_file(file), and the error entry.
ExtractText ==
    /\ pc = "loop"
    /\ i <= Len(files)
    /\ Accepted(files[i])
    /\ LET extracted == extract_text_from_file(files[i])
           candidate_name == CandidateName(files[i].filename)
       IN  IF extracted.error # ""
           THEN /\ results' = Append(results,
                       [file |-> i, entry |-> ErrorEntry(candidate_name, extracted.error)])
                /\ i' = i + 1
                /\ UNCHANGED <<pc, resume_text>>
           ELSE /\ resume_text' = extracted.text
                /\ pc' = "persist_candidate"
                /\ UNCHANGED <<i, results>>
    /\ UNCHANGED <<requestVars, job_id, candidate_id, dbVars, response, log,
                   analysisVars>>

\* supabase.table('candidates').insert(candidate_data).execute(), its two
\* failures, and on success the call of analyze_resume_match.
PersistCandidate ==
    /\ pc = "persist_candidate"
    /\ LET candidate_name == CandidateName(files[i].filename) IN
       \E outcome \in InsertOutcomes :
          CASE outcome = "ok" ->
                 /\ candidates' = Append(candidates,
                        [id |-> Len(candidates) + 1,
                         file |-> i,
                         job_id |-> job_id,
                         name |-> candidate_name,
                         filename |-> files[i].filename,
                         resume_text |-> IF resume_text > ResumeDbCap
                                         THEN ResumeDbCap ELSE resume_text])
                 /\ candidate_id' = Len(candidates) + 1
                 /\ aArgs' = [job_description |-> job_description,
                              resume_text |-> resume_text,
                              candidate_name |-> candidate_name]
                 /\ aPc' = "start"
                 /\ pc' = "analyze"
                 /\ UNCHANGED <<i, results, log>>
            [] outcome = "empty" ->
                 /\ results' = Append(results,
                        [file |-> i,
                         entry |-> ErrorEntry(candidate_name, "Failed to save candidate data")])
                 /\ log' = Append(log, "Failed to save candidate to database")
                 /\ i' = i + 1
                 /\ pc' = "loop"
                 /\ UNCHANGED <<candidates, candidate_id, aArgs, aPc>>
            [] OTHER ->
                 /\ results' = Append(results,
                        [file |-> i,
                         entry |-> ErrorEntry(candidate_name, "Database error")])
                 /\ log' = Append(log, "Database error saving candidate")
                 /\ i' = i + 1
                 /\ pc' = "loop"
                 /\ UNCHANGED <<candidates, candidate_id, aArgs, aPc>>
    /\ UNCHANGED <<requestVars, job_id, resume_text, jobs, analysis_results,
                   response, aResult, aReply, callLog, inFlight>>

\* ------------------------------------------------- analyze_resume_match
\* The rich universe of replies, used when the routine is run on its own.
Absent == [t |-> "absent", n |-> 0, s |-> "", l |-> <<>>]
Present(fields) == [k \in {x \in DOMAIN fields : fields[x] # Absent} |-> fields[k]]

ScoreUniverse ==
    {Absent, JInt(-1), JInt(0), JInt(100), JInt(101), JFloat(995), JFloat(1001),
     JBool(1), JStr("85"), JNull, JNaN}
YearsUniverse ==
    {Absent, JInt(-1), JInt(0), JInt(7), JFloat(-5), JFloat(15), JStr("5"),
     JInf, JNegInf, JNaN, JBool(0)}
RecommendationUniverse ==
    {Absent, JStr("qualified"), JStr("review"), JStr("not_qualified"),
     JStr("hire"), JStr("Qualified"), JNull}
NameUniverse(name) == {Absent, JStr(name), JStr("Someone Else")}
ErrorUniverse == {Absent, JStr("low confidence")}
\* The four arrays and the summary: present and well typed, absent, wrongly
\* typed.
RestUniverse ==
    {[a |-> JList(<<"Python">>), s |-> JStr("Good technical candidate")],
     [a |-> Absent, s |-> Absent],
     [a |-> JStr("Python"), s |-> JInt(1)]}

ObjectUniverse(name) ==
    {Present([candidate_name |-> cn, match_score |-> ms, experience_years |-> ey,
              recommendation |-> rc, error |-> er,
              matching_skills |-> rest.a, missing_skills |-> rest.a,
              strengths |-> rest.a, weaknesses |-> rest.a, summary |-> rest.s]) :
        cn \in NameUniverse(name), ms \in ScoreUniverse, ey \in YearsUniverse,
        rc \in RecommendationUniverse, er \in ErrorUniverse, rest \in RestUniverse}

\* Texts around a document: bare, fenced, half fenced, padded, and texts
\* json.loads rejects.
Wrappings(v) ==
    {<<v>>, <<Ws, v, Ws>>,
     <<Fence, JsonWord, Ws, v, Ws, Fence>>, <<Fence, Ws, v, Ws, Fence>>,
     <<Fence, JsonWord, v>>, <<v, Fence>>, <<Ws, Fence, v, Fence, Ws>>,
     <<JsonWord, v>>, <<Fence, Fence, v>>, <<Junk, v>>, <<v, Ws, Junk>>,
     <<v, v>>, <<Fence, JsonWord, Fence, JsonWord, v>>}

RichReplies(name) ==
    {ApiRaises}
    \cup {ReplyText(toks) : toks \in {<<>>, <<Ws>>, <<Junk>>, <<Fence>>,
                                      <<Fence, JsonWord>>, <<Fence, JsonWord, Fence>>}}
    \cup {ReplyText(<<Val(ObjectDoc(o))>>) : o \in ObjectUniverse(name)}
    \cup {ReplyText(toks) : toks \in
            UNION {Wrappings(Val(doc)) : doc \in
                     {ObjectDoc(Analysis(JStr(name), JInt(90), JInt(5), JStr("qualified"))),
                      ObjectDoc(Analysis(JStr("Someone Else"), JInt(150), JInt(-1), JStr("hire"))),
                      ObjectDoc(EmptyDict),
                      ArrayDoc({}), ArrayDoc({"match_score", "experience_years", "recommendation"}),
                      StringDoc({"match_score", "experience_years", "recommendation"}),
                      StringDoc({"match_score"}),
                      ScalarDoc}}}

\* The replies the model may give to the current call.
ReplyDomain ==
    IF pc = "none" THEN RichReplies(aArgs.candidate_name)
    ELSE HandlerReplies(aArgs.candidate_name)

\* The routine up to the model call: the length guards return without a
\* call, otherwise generate_content is invoked.
AnalyzeStart ==
    /\ aPc = "start"
    /\ LET short == LengthGuard(aArgs.job_description, aArgs.resume_text) IN
       IF short # ""
       THEN /\ aResult' = ErrorRecord(short, aArgs.candidate_name)
            /\ aPc' = "done"
            /\ UNCHANGED <<callLog, inFlight>>
       ELSE /\ callLog' = Append(callLog, i)
            /\ inFlight' = inFlight + 1
            /\ aPc' = "awaiting"
            /\ UNCHANGED aResult
    /\ UNCHANGED <<requestVars, pc, i, job_id, candidate_id, resume_text, dbVars,
                   results, response, log, aArgs, aReply>>

\* generate_content returns or raises, and the routine runs to its return.
ModelReturns ==
    /\ aPc = "awaiting"
    /\ \E reply \in ReplyDomain :
          /\ aReply' = reply
          /\ aResult' = Normalize(reply, aArgs.candidate_name)
    /\ inFlight' = inFlight - 1
    /\ aPc' = "done"
    /\ UNCHANGED <<requestVars, pc, i, job_id, candidate_id, resume_text, dbVars,
                   results, response, log, aArgs, callLog>>

\* ------------------------------------------------------- handler, continued
\* int(x) of the handler raises for NaN and Infinity, for a string that is
\* no integer literal, and for null, lists and dicts.
IntFails(v) ==
    CASE IsNumber(v) -> IntRaises(v)
      [] IsStr(v) -> ~IntLiteral(v.s).ok
      [] OTHER -> TRUE

\* The row built from an analysis without an error key.
analysis_record(analysis) ==
    [job_id |-> job_id,
     candidate_id |-> candidate_id,
     match_score |-> IntOf(DictGet(analysis, "match_score", JInt(0))),
     experience_years |-> IntOf(DictGet(analysis, "experience_years", JInt(0))),
     matching_skills |-> DictGet(analysis, "matching_skills", JList(<<>>)),
     missing_skills |-> DictGet(analysis, "missing_skills", JList(<<>>)),
     strengths |-> DictGet(analysis, "strengths", JList(<<>>)),
     weaknesses |-> DictGet(analysis, "weaknesses", JList(<<>>)),
     recommendation |-> DictGet(analysis, "recommendation", JStr("review")),
     summary |-> DictGet(analysis, "summary", JStr(""))]

\* Building the row raises when one of the two int() calls does.
RecordRaises(analysis) ==
    \/ IntFails(DictGet(analysis, "match_score", JInt(0)))
    \/ IntFails(DictGet(analysis, "experience_years", JInt(0)))

\* Mutant of ShouldPersist: the analysis is stored whatever its keys.
ShouldPersistAlways(analysis) == TRUE

\* if "error" not in analysis
ShouldPersist(analysis) == "error" \notin DOMAIN analysis

\* The analysis has returned: the row is inserted when the analysis has no
\* error key (an exception is logged and ignored; what execute() returns is
\* not looked at, so an insert that returns no data goes unnoticed), and the
\* analysis is appended.
PersistAnalysis ==
    /\ pc = "analyze"
    /\ aPc = "done"
    /\ IF ShouldPersist(aResult)
       THEN IF RecordRaises(aResult)
            THEN /\ log' = Append(log, "Database error saving analysis")
                 /\ UNCHANGED analysis_results
            ELSE \E outcome \in InsertOutcomes :
                    CASE outcome = "ok" ->
                           /\ analysis_results' =
                                 Append(analysis_results, analysis_record(aResult))
                           /\ UNCHANGED log
                      [] outcome = "empty" ->
                           UNCHANGED <<analysis_results, log>>
                      [] OTHER ->
                           /\ log' = Append(log, "Database error saving analysis")
                           /\ UNCHANGED analysis_results
       ELSE UNCHANGED <<analysis_results, log>>
    /\ results' = Append(results, [file |-> i, entry |-> aResult])
    /\ i' = i + 1
    /\ pc' = "loop"
    /\ aPc' = "idle"
    /\ aArgs' = NoArgs
    /\ aResult' = NoResult
    /\ aReply' = NoReply
    /\ UNCHANGED <<requestVars, job_id, candidate_id, resume_text, jobs,
                   candidates, response, callLog, inFlight>>

\* After the loop: the sort and the 200 response.
AggregateAndSort ==
    /\ pc = "loop"
    /\ i > Len(files)
    /\ results' = SortByScore(results)
    /\ response' = [status |-> 200, error |-> "", job_id |-> job_id,
                    job_title |-> job_title,
                    total_candidates |-> Len(results'),
                    results |-> results']
    /\ pc' = "done"
    /\ UNCHANGED <<requestVars, i, job_id, candidate_id, resume_text, dbVars, log,
                   analysisVars>>

Next ==
    \/ ValidateInputs
    \/ CreateJobRecord
    \/ CheckFiles
    \/ SkipFile
    \/ ExtractText
    \/ PersistCandidate
    \/ AnalyzeStart
    \/ ModelReturns
    \/ PersistAnalysis
    \/ AggregateAndSort

Spec == Init /\ [][Next]_vars

\* ------------------------------------------- the analysis run on its own
ArgUniverse ==
    {[job_description |-> jl, resume_text |-> rl, candidate_name |-> name] :
        jl \in {0, MinTextLength - 1, MinTextLength, MinTextLength + 1},
        rl \in {0, MinTextLength - 1, MinTextLength, MinTextLength + 1},
        name \in {"Jane Doe", "Bob Ray"}}

InitAnalyze ==
    /\ job_title = ""
    /\ job_description = 0
    /\ files = <<>>
    /\ pc = "none"
    /\ i = 0
    /\ job_id = 0
    /\ candidate_id = 0
    /\ resume_text = 0
    /\ jobs = <<>>
    /\ candidates = <<>>
    /\ analysis_results = <<>>
    /\ results = <<>>
    /\ response = NoResponse
    /\ log = <<>>
    /\ aPc = "start"
    /\ aArgs \in ArgUniverse
    /\ aResult = NoResult
    /\ aReply = NoReply
    /\ callLog = <<>>
    /\ inFlight = 0

NextAnalyze ==
    \/ AnalyzeStart
    \/ ModelReturns

SpecAnalyze == InitAnalyze /\ [][NextAnalyze]_vars

\* =================================================================== claims
IsErrorRecord(entry, candidate_name) ==
    /\ DOMAIN entry = {"error", "candidate_name", "match_score"}
    /\ entry["candidate_name"] = JStr(candidate_name)
    /\ entry["match_score"] = JInt(0)

\* The entries of a list of items that belong to file j.
EntriesOf(items, j) == {m \in 1..Len(items) : items[m].file = j}

\* A file with a file name and an extension among pdf and txt, whatever its
\* case.
NamedPdfOrTxt(file) ==
    /\ file.filename # <<>>
    /\ Len(file.filename) >= 2
    /\ file.filename[Len(file.filename)] \in {"pdf", "PDF", "txt", "TXT"}

\* C1: every row inserted into analysis_results has a match_score within
\* [0,100] and a recommendation among qualified, review and not_qualified,
\* whatever the model replied and whichever persistence calls failed.
C1_PersistedRowsValid ==
    \A m \in 1..Len(analysis_results) :
        /\ analysis_results[m].match_score \in 0..100
        /\ analysis_results[m].recommendation \in
              {JStr("qualified"), JStr("review"), JStr("not_qualified")}

\* A row made from a reply whose score and recommendation were both invalid
\* has been inserted, in a request where a persistence call failed.
C1_Witness ==
    /\ response.status = 200
    /\ log # <<>>
    /\ \E m \in 1..Len(analysis_results) :
          /\ analysis_results[m].match_score = 50
          /\ analysis_results[m].recommendation = JStr("review")

\* C2 (as claimed): a request answered 400 has created no job record.
C2_RejectedCreatesNoJob == response.status = 400 => jobs = <<>>

\* C3: the results of a 200 response are in descending order of match_score,
\* and entries of equal match_score are in the order of their files.
C3_SortedStable ==
    response.status = 200 =>
        \A a, b \in 1..Len(response.results) :
            a < b =>
                /\ SortKey(response.results[a]) >= SortKey(response.results[b])
                /\ SortKey(response.results[a]) = SortKey(response.results[b])
                      => response.results[a].file < response.results[b].file

\* A 200 response with an error entry and a successful analysis of equal
\* score, the error entry of the earlier file first.
C3_Witness ==
    /\ response.status = 200
    /\ Len(response.results) = 2
    /\ SortKey(response.results[1]) = SortKey(response.results[2])
    /\ "error" \in DOMAIN response.results[1].entry
    /\ "error" \notin DOMAIN response.results[2].entry

\* C4: in the loop and after it, every file already handled that has a name
\* and an allowed extension has exactly one entry and every other file has
\* none; the entry of a file whose extraction failed is the error record
\* with its candidate name and score 0; a 200 response has handled every
\* file and counts the accepted ones.
C4_OneEntryPerAcceptedFile ==
    /\ \A j \in 1..Len(files) :
          /\ Cardinality(EntriesOf(results, j)) =
                IF j < i /\ NamedPdfOrTxt(files[j]) THEN 1 ELSE 0
          /\ (j < i /\ NamedPdfOrTxt(files[j])
                /\ extract_text_from_file(files[j]).error # "")
                => \A m \in EntriesOf(results, j) :
                      /\ IsErrorRecord(results[m].entry, CandidateName(files[j].filename))
                      /\ results[m].entry["error"] =
                            JStr(extract_text_from_file(files[j]).error)
    /\ response.status = 200 =>
          /\ i = Len(files) + 1
          /\ response.results = results
          /\ response.total_candidates =
                Cardinality({j \in 1..Len(files) : NamedPdfOrTxt(files[j])})

\* A 200 response for two files of which the first failed to extract and
\* the second was analysed without error.
C4_Witness ==
    /\ response.status = 200
    /\ Len(files) = 2
    /\ extract_text_from_file(files[1]).error # ""
    /\ NamedPdfOrTxt(files[1])
    /\ response.total_candidates = 2
    /\ \E m \in EntriesOf(results, 2) : "error" \notin DOMAIN results[m].entry

\* C5 (as claimed): the record the analysis returns carries the caller's
\* candidate name, whatever the model replied.
C5_NameIsCallers ==
    aPc = "done" =>
        /\ "candidate_name" \in DOMAIN aResult
        /\ aResult["candidate_name"] = JStr(aArgs.candidate_name)

\* The reply was a text that does not parse after the clean-up.
ReplyUnparseable ==
    /\ aPc = "done"
    /\ aReply.kind = "text"
    /\ ~JsonParses(StripFences(aReply.toks))

\* The fallback of the spec with the given summary.
FallbackWithSummary(candidate_name, summary) ==
    [candidate_name |-> JStr(candidate_name),
     match_score |-> JInt(50),
     experience_years |-> JInt(0),
     matching_skills |-> JList(<<>>),
     missing_skills |-> JList(<<>>),
     strengths |-> JList(<<"Analysis completed">>),
     weaknesses |-> JList(<<"Unable to parse detailed analysis">>),
     recommendation |-> JStr("review"),
     summary |-> JStr(summary),
     error |-> JStr("JSON parsing failed, using fallback analysis")]

\* C6 (amended): a reply that is no parseable JSON yields the fallback record
\* of the spec with the caller's candidate name, except that its summary is
\* "Analysis completed but detailed parsing failed".
C6_FallbackExact ==
    ReplyUnparseable =>
        aResult = FallbackWithSummary(aArgs.candidate_name,
                      "Analysis completed but detailed parsing failed")

\* C6 (as claimed): the summary is "Analysis completed but parsing failed".
C6_FallbackAsClaimed ==
    ReplyUnparseable =>
        aResult = FallbackWithSummary(aArgs.candidate_name,
                      "Analysis completed but parsing failed")

\* A fenced reply whose body is no single JSON document.
C6_Witness ==
    /\ ReplyUnparseable
    /\ Len(aReply.toks) >= 2
    /\ aReply.toks[1].k = "fence"
    /\ "error" \in DOMAIN aResult

\* The reply parsed as a JSON object; ReplyObject is its dict.
ReplyIsObject ==
    /\ aPc = "done"
    /\ aReply.kind = "text"
    /\ JsonParses(StripFences(aReply.toks))
    /\ StripFences(aReply.toks)[1].doc.kind = "object"
ReplyObject == StripFences(aReply.toks)[1].doc.obj

\* A number as Python counts it (int, float and bool; NaN and the infinities
\* are floats): within [0,100]; at least 0, which NaN is not; NaN.
NumberInScoreRange(v) ==
    /\ v.t \in {"int", "float", "bool"}
    /\ 0 <= (IF v.t = "float" THEN v.n ELSE 10 * v.n)
    /\ (IF v.t = "float" THEN v.n ELSE 10 * v.n) <= 1000
NumberAtLeastZero(v) ==
    \/ v.t \in {"int", "float", "bool"} /\ 0 <= v.n
    \/ v.t = "inf" /\ v.n > 0
NumberIsNaN(v) == v.t = "nan"
OneOfThree(v) ==
    v \in {JStr("qualified"), JStr("review"), JStr("not_qualified")}

\* The coercions of match_score and recommendation, for an object that has
\* the three fields.
CoercedFieldwise(object, result) ==
    /\ {"match_score", "experience_years", "recommendation"} \subseteq DOMAIN result
    /\ result["match_score"] =
          IF NumberInScoreRange(object["match_score"])
          THEN object["match_score"] ELSE JInt(50)
    /\ result["recommendation"] =
          IF OneOfThree(object["recommendation"])
          THEN object["recommendation"] ELSE JStr("review")

\* experience_years kept iff a number >= 0, else 0.
YearsKeptAtLeastZero(object, result) ==
    result["experience_years"] =
        IF NumberAtLeastZero(object["experience_years"])
        THEN object["experience_years"] ELSE JInt(0)

\* experience_years kept iff a number that is >= 0 or NaN, else 0.
YearsKeptAtLeastZeroOrNaN(object, result) ==
    result["experience_years"] =
        IF \/ NumberAtLeastZero(object["experience_years"])
           \/ NumberIsNaN(object["experience_years"])
        THEN object["experience_years"] ELSE JInt(0)

HasRequiredFields(object) ==
    {"match_score", "experience_years", "recommendation"} \subseteq DOMAIN object

\* The error record that names the first of match_score, experience_years,
\* recommendation (in that order) the object lacks.
MissingFieldRecord(object, candidate_name) ==
    [error |-> JStr(IF "match_score" \notin DOMAIN object
                    THEN "AI response missing required field: match_score"
                    ELSE IF "experience_years" \notin DOMAIN object
                    THEN "AI response missing required field: experience_years"
                    ELSE "AI response missing required field: recommendation"),
     candidate_name |-> JStr(candidate_name),
     match_score |-> JInt(0)]

\* C7 (amended): when the reply parses as a JSON object that has match_score,
\* experience_years and recommendation, each is coerced on its own
\* (match_score kept iff a number within [0,100], else 50; experience_years
\* kept iff a number that is >= 0 or NaN, else 0; recommendation kept iff one
\* of the three, else "review") and the record has an error key only if the
\* object had one; when one of the three is absent the whole result is
\* exactly the error record with the message "AI response missing required
\* field: <field>" for the first absent field in the order match_score,
\* experience_years, recommendation, the caller's candidate name and
\* match_score 0.
C7_CoercionWhenFieldsPresent ==
    ReplyIsObject =>
        IF HasRequiredFields(ReplyObject)
        THEN /\ CoercedFieldwise(ReplyObject, aResult)
             /\ YearsKeptAtLeastZeroOrNaN(ReplyObject, aResult)
             /\ "error" \in DOMAIN aResult <=> "error" \in DOMAIN ReplyObject
        ELSE aResult = MissingFieldRecord(ReplyObject, aArgs.candidate_name)

\* C7 (as claimed): the coercion (experience_years kept iff a number >= 0)
\* applies also when a field is absent (an absent field getting its default),
\* and the record has no error key.
C7_CoercionAlways ==
    ReplyIsObject =>
        LET filled == [key \in {"match_score", "experience_years", "recommendation"} |->
                          DictGet(ReplyObject, key, JNull)]
        IN  /\ CoercedFieldwise(filled, aResult)
            /\ YearsKeptAtLeastZero(filled, aResult)
            /\ "error" \notin DOMAIN aResult

\* An object with the three fields, a score out of range next to valid years
\* and an unknown recommendation: one field defaulted, another kept.
C7_Witness ==
    /\ ReplyIsObject
    /\ HasRequiredFields(ReplyObject)
    /\ ReplyObject["match_score"] = JInt(101)
    /\ ReplyObject["experience_years"] = JInt(7)
    /\ ReplyObject["recommendation"] = JStr("hire")
    /\ aResult["match_score"] = JInt(50)
    /\ aResult["experience_years"] = JInt(7)

\* C8: when the resume text or the job description is shorter than 50
\* characters the analysis returns the error record with match_score 0 and
\* the caller's candidate name, and the model is not invoked.
C8_ShortInputsSkipModel ==
    (pc = "none" /\ (aArgs.resume_text < 50 \/ aArgs.job_description < 50)) =>
        /\ callLog = <<>>
        /\ inFlight = 0
        /\ aPc # "awaiting"
        /\ aReply = NoReply
        /\ aPc = "done" => IsErrorRecord(aResult, aArgs.candidate_name)

\* The analysis has returned for a resume of 49 characters and a job
\* description of 50.
C8_Witness ==
    /\ pc = "none"
    /\ aPc = "done"
    /\ aArgs.resume_text = 49
    /\ aArgs.job_description = 50
    /\ IsErrorRecord(aResult, aArgs.candidate_name)
    /\ callLog = <<>>

\* The files of the request that reach the model: accepted, extracted,
\* stored as a candidate, and with texts of at least 50 characters.
ReachesModel(j) ==
    /\ NamedPdfOrTxt(files[j])
    /\ extract_text_from_file(files[j]).error = ""
    /\ extract_text_from_file(files[j]).text >= 50
    /\ job_description >= 50
    /\ \E c \in 1..Len(candidates) : candidates[c].file = j

\* C9 (amended): a request that uploads N files makes at most N model calls,
\* exactly one for each file that was accepted, extracted and stored as a
\* candidate and whose resume text and job description have at least 50
\* characters, and none for any other file; the calls are issued in file
\* order with at most one in flight.
C9_CallsSequentialPerAnalysedFile ==
    /\ inFlight \in {0, 1}
    /\ inFlight = 1 <=> aPc = "awaiting"
    /\ Len(callLog) <= Len(files)
    /\ \A a, b \in 1..Len(callLog) : a < b => callLog[a] < callLog[b]
    /\ \A j \in 1..Len(files) :
          j < i => (Cardinality({a \in 1..Len(callLog) : callLog[a] = j}) =
                      IF ReachesModel(j) THEN 1 ELSE 0)
    /\ response.status = 200 => i = Len(files) + 1 /\ inFlight = 0

\* C9 (as claimed): a request answered 200 for N files has made N calls.
C9_ExactlyNCalls == response.status = 200 => Len(callLog) = Len(files)

\* A 200 response for two files, the first without a model call, the second
\* with one.
C9_Witness ==
    /\ response.status = 200
    /\ Len(files) = 2
    /\ NamedPdfOrTxt(files[1])
    /\ callLog = <<2>>

\* C10 (as claimed): once the job record exists the request ends with 200.
C10_JobCreatedThenOk == (pc = "done" /\ jobs # <<>>) => response.status = 200

\* The candidate rows made for file j, and the analysis rows that carry the
\* id of one of them.
CandidatesOf(j) == {c \in 1..Len(candidates) : candidates[c].file = j}
AnalysisRowsOf(j) ==
    {r \in 1..Len(analysis_results) :
        \E c \in CandidatesOf(j) : analysis_results[r].candidate_id = candidates[c].id}

\* What holds of the three tables in every state.
C11_Tables ==
    /\ \A c \in 1..Len(candidates) :
          /\ job_id # 0
          /\ \E b \in 1..Len(jobs) : jobs[b].id = job_id
          /\ candidates[c].job_id = job_id
          /\ candidates[c].id # 0
          /\ \A d \in 1..Len(candidates) : candidates[d].id = candidates[c].id => d = c
          /\ extract_text_from_file(files[candidates[c].file]).error = ""
    /\ \A r \in 1..Len(analysis_results) :
          /\ analysis_results[r].job_id = job_id
          /\ \E c \in 1..Len(candidates) :
                /\ candidates[c].id = analysis_results[r].candidate_id
                /\ candidates[c].file < i
                /\ EntriesOf(results, candidates[c].file) # {}
                /\ \A m \in EntriesOf(results, candidates[c].file) :
                      "error" \notin DOMAIN results[m].entry
          /\ \A q \in 1..Len(analysis_results) :
                analysis_results[q].candidate_id = analysis_results[r].candidate_id
                   => q = r
    /\ \A j \in 1..Len(files) :
          (extract_text_from_file(files[j]).error # "" \/ CandidatesOf(j) = {})
             => /\ AnalysisRowsOf(j) = {}
                /\ j < i => \A a \in 1..Len(callLog) : callLog[a] # j

\* What holds of every step that inserts a row: a candidate row needs the
\* job row and its id, an analysis row needs the candidate row of the file
\* at hand and an analysis without an error key, and carries both ids.
C11_InsertStep ==
    /\ candidates' # candidates =>
          /\ jobs # <<>>
          /\ job_id = jobs[Len(jobs)].id
          /\ jobs' = jobs
          /\ analysis_results' = analysis_results
    /\ analysis_results' # analysis_results =>
          /\ candidates' = candidates
          /\ "error" \notin DOMAIN aResult
          /\ Len(analysis_results') = Len(analysis_results) + 1
          /\ \E c \in CandidatesOf(i) :
                /\ analysis_results'[Len(analysis_results')].candidate_id = candidates[c].id
                /\ analysis_results'[Len(analysis_results')].job_id = candidates[c].job_id
          /\ \A a \in 1..Len(callLog) : callLog[a] <= i

\* C11: within one request no candidate is inserted unless the job insert
\* succeeded and returned an id; an analysis row is inserted only after the
\* candidate insert of the same file succeeded and only for an analysis
\* without an error key, and carries that candidate's id and the request's
\* job id; a file whose extraction or candidate insert failed gets no
\* analysis row and no model call.
C11_PersistenceOrdered == []C11_Tables /\ [][C11_InsertStep]_vars

\* A 200 response for two files: the candidate insert of the first failed
\* (no row, no call), the second has its candidate row and an analysis row
\* with that candidate's id and the job id.
C11_Witness ==
    /\ response.status = 200
    /\ Len(files) = 2
    /\ NamedPdfOrTxt(files[1])
    /\ extract_text_from_file(files[1]).error = ""
    /\ CandidatesOf(1) = {}
    /\ callLog = <<2>>
    /\ Len(candidates) = 1
    /\ Len(analysis_results) = 1
    /\ analysis_results[1].candidate_id = candidates[1].id
    /\ analysis_results[1].job_id = jobs[1].id

====
